---- MODULE Spec2Model ----
(***************************************************************************)
(* Managed attributes of YUI3 (src/src/attribute/Attribute.js): the        *)
(* attribute registry held in a Y.State store, the get/set access protocol *)
(* with dot-path sub values, and the change event whose default handler    *)
(* commits the new value.                                                  *)
(***************************************************************************)
EXTENDS Integers, Sequences, FiniteSets, TLC

(***************************************************************************)
(* Bounds of the explored inputs.                                          *)
(***************************************************************************)
\* numbers passed to set are 0..MaxNum
MaxNum == 1
\* longest sub path (segments after the attribute name) passed to get/set
MaxPathLen == 2
\* largest number of name/value pairs in the hash passed to setAtts
MaxAtts == 2

\* the most pairs in a hash of initial values passed to _initAtts
MaxInitValues == 3

\* the most objects in the heap
MaxObjs == 6

(***************************************************************************)
(* String constants of the source.                                         *)
(***************************************************************************)
DOT == "."
CHANGE == "Change"
GET == "get"
SET == "set"
VALUE == "value"
CLONE == "clone"
READ_ONLY == "readOnly"
WRITE_ONCE == "writeOnce"
VALIDATOR == "validator"

\* Attribute.CLONE
CLONE_NONE == 0
CLONE_DEEP == 1
CLONE_SHALLOW == 2
CLONE_IMMUTABLE == 3

(***************************************************************************)
(* JavaScript values.  An object is a function from its own keys to        *)
(* values; Throw stands for the TypeError of a property access on          *)
(* undefined.                                                              *)
(***************************************************************************)
Undef == [t |-> "undef"]
Throw == [t |-> "throw"]
Bool(b) == [t |-> "bool", b |-> b]
Num(n) == [t |-> "num", n |-> n]
Str(s) == [t |-> "str", s |-> s]
Fn(id) == [t |-> "fn", id |-> id]
Obj(f) == [t |-> "obj", f |-> f]

NoKeys == [x \in {} |-> Undef]

\* o[k] = v on a plain mapping
Put(f, k, v) == [x \in DOMAIN f \cup {k} |-> IF x = k THEN v ELSE f[x]]

\* delete o[k]
Delete(f, k) == [x \in DOMAIN f \ {k} |-> f[x]]

\* if (v) ...
Truthy(v) ==
    CASE v.t = "undef" -> FALSE
      [] v.t = "bool" -> v.b
      [] v.t = "num" -> v.n # 0
      [] v.t = "str" -> v.s # ""
      [] OTHER -> TRUE

\* o[k] read: undefined for a missing key and for a key of a primitive,
\* a TypeError when o is undefined
Prop(o, k) ==
    CASE o.t = "undef" -> Throw
      [] o.t = "throw" -> Throw
      [] o.t = "obj" -> IF k \in DOMAIN o.f THEN o.f[k] ELSE Undef
      [] OTHER -> Undef

\* o[k] = v write: creates or replaces the key of an object, is ignored on a
\* primitive, a TypeError when o is undefined
Assign(o, k, v) ==
    CASE o.t = "undef" -> Throw
      [] o.t = "throw" -> Throw
      [] o.t = "obj" -> Obj(Put(o.f, k, v))
      [] OTHER -> o

(***************************************************************************)
(* The user's callbacks of an attribute configuration (set, get,           *)
(* validator), by name.                                                    *)
(***************************************************************************)
\* the value a getter named "withJ" computes: never passed to set
GetMark == Num(-1)

\* set: function(v) { if (typeof v === "number") { return Math.max(v, 1); } }
\* get: function(v) { computed view: key j of an object, a fixed number otherwise }
\* validator: function(v) { return v !== undefined && v !== 0; }
\* validator: function(v) { return v has a defined key k }
Call(fn, v) ==
    CASE fn.id = "min1" -> IF v.t = "num" THEN Num(IF v.n < 1 THEN 1 ELSE v.n) ELSE Undef
      [] fn.id = "withJ" -> IF v.t = "obj" THEN Obj(Put(v.f, "j", GetMark)) ELSE GetMark
      [] fn.id = "nonZero" -> Bool(v # Undef /\ v # Num(0))
      [] fn.id = "hasK" -> Bool(v.t = "obj" /\ Prop(v, "k") # Undef)
      [] OTHER -> Undef

(***************************************************************************)
(* Y.State: data[field][name].                                             *)
(***************************************************************************)
Fields == {VALUE, CLONE, READ_ONLY, WRITE_ONCE, VALIDATOR, GET, SET}

EmptyState == [k \in Fields |-> NoKeys]

\* conf.add(name, o): merges the fields of o into the record of name
StateAdd(d, name, o) ==
    [k \in Fields |-> IF k \in DOMAIN o THEN Put(d[k], name, o[k]) ELSE d[k]]

\* conf.get(name, key)
StateGet(d, name, key) ==
    IF name \in DOMAIN d[key] THEN d[key][name] ELSE Undef

\* conf.get(name): the whole record of name, undefined when no field holds
\* name
StateGetRecord(d, name) ==
    LET ks == {k \in Fields : name \in DOMAIN d[k]}
    IN  IF ks = {} THEN Undef ELSE Obj([k \in ks |-> d[k][name]])

\* conf.remove(name)
StateRemove(d, name) ==
    [k \in Fields |-> Delete(d[k], name)]

(***************************************************************************)
(* Names.  A name is kept as the list of its segments; NameStr is the      *)
(* dotted string the caller passes.                                        *)
(***************************************************************************)
RECURSIVE NameStr(_)
NameStr(segs) ==
    IF Len(segs) = 1 THEN segs[1]
    ELSE segs[1] \o DOT \o NameStr(Tail(segs))

\* name.indexOf(DOT) !== -1
HasDot(segs) == Len(segs) > 1

(***************************************************************************)
(* Clone utilities: copies with the same content.                          *)
(***************************************************************************)
Ymerge(val) == val

Yclone(val) == val

_clone(val, type) ==
    CASE type = Num(CLONE_SHALLOW) -> Ymerge(val)
      [] type = Num(CLONE_DEEP) -> Yclone(val)
      [] type = Num(CLONE_IMMUTABLE) -> Yclone(val)
      [] OTHER -> val

(***************************************************************************)
(* Sub values.                                                             *)
(***************************************************************************)
RECURSIVE GetLoop(_, _, _)
GetLoop(path, i, val) ==
    IF val # Undef /\ i <= Len(path)
    THEN GetLoop(path, i + 1, Prop(val, path[i]))
    ELSE val

\* the loop of _getSubAttVal without the test val !== undefined
RECURSIVE GetLoopUnguarded(_, _, _)
GetLoopUnguarded(path, i, val) ==
    IF i <= Len(path)
    THEN GetLoopUnguarded(path, i + 1, Prop(val, path[i]))
    ELSE val

_getSubAttVal_unguarded(path, val) ==
    IF Len(path) > 0 THEN GetLoopUnguarded(path, 1, val) ELSE val

_getSubAttVal(path, val) ==
    IF Len(path) > 0 THEN GetLoop(path, 1, val) ELSE val

\* the in-place write o[path[i]] = subval, seen from the root val, where o is
\* reached from val by the segments before the leaf
RECURSIVE AssignAt(_, _, _)
AssignAt(val, path, subval) ==
    IF Len(path) = 1 THEN Assign(val, path[1], subval)
    ELSE IF val.t = "obj" /\ path[1] \in DOMAIN val.f
         THEN Obj(Put(val.f, path[1], AssignAt(val.f[path[1]], Tail(path), subval)))
         ELSE val

\* _setSubAttVal without the test o !== undefined before the write
_setSubAttVal_unguardedWrite(path, val, subval) ==
    LET leafLen == Len(path) - 1
        o == GetLoop(SubSeq(path, 1, leafLen), 1, val)
    IN  IF Len(path) >= 1
        THEN IF o = Undef \/ o = Throw THEN Throw ELSE AssignAt(val, path, subval)
        ELSE val

_setSubAttVal(path, val, subval) ==
    LET leafLen == Len(path) - 1
        o == GetLoop(SubSeq(path, 1, leafLen), 1, val)
    IN  IF Len(path) >= 1
        THEN IF o # Undef
             THEN IF o = Throw THEN Throw ELSE AssignAt(val, path, subval)
             ELSE Undef
        ELSE val

(***************************************************************************)
(* get                                                                     *)
(***************************************************************************)
get(d, segs) ==
    LET name == Head(segs)
        path == Tail(segs)
        val0 == StateGet(d, name, VALUE)
        getFn == StateGet(d, name, GET)
        clone == StateGet(d, name, CLONE)
        val1 == IF Truthy(clone) THEN _clone(val0, clone) ELSE val0
        val2 == IF Truthy(getFn) THEN Call(getFn, val1) ELSE val1
    IN  IF HasDot(segs) THEN _getSubAttVal(path, val2) ELSE val2

(***************************************************************************)
(* get on references.  Where it matters which object a value is, objects   *)
(* live in a heap: h[i] holds the keys of object i, and a key holds a      *)
(* number or Ref(j).  A call that allocates returns the heap with its      *)
(* value.                                                                  *)
(***************************************************************************)
Ref(i) == [t |-> "ref", id |-> i]

\* the objects that the keys of the objects of S refer to, and so on
RECURSIVE ReachFrom(_, _)
ReachFrom(h, S) ==
    LET S2 == S \cup UNION {{h[i][k].id : k \in {x \in DOMAIN h[i] : h[i][x].t = "ref"}} : i \in S}
    IN  IF S2 = S THEN S ELSE ReachFrom(h, S2)

\* the objects that make up v
Reach(h, v) == IF v.t = "ref" THEN ReachFrom(h, {v.id}) ELSE {}

\* the content of v: the object and all it holds, as a value
RECURSIVE Deref(_, _)
Deref(h, v) ==
    IF v.t = "ref"
    THEN Obj([k \in DOMAIN h[v.id] |-> Deref(h, h[v.id][k])])
    ELSE v

\* Y.merge(val): a new object with the keys of val, each holding what the
\* key of val holds
YmergeIn(h, val) ==
    IF val.t = "ref"
    THEN [heap |-> Append(h, h[val.id]), val |-> Ref(Len(h) + 1)]
    ELSE [heap |-> h, val |-> val]

\* Y.clone(val): a new object for every object that makes up val
YcloneIn(h, val) ==
    IF val.t = "ref"
    THEN LET R == Reach(h, val)
             new(i) == Len(h) + Cardinality({j \in R : j <= i})
             old(n) == CHOOSE i \in R : new(i) = n
             copy(i) == [k \in DOMAIN h[i] |->
                            IF h[i][k].t = "ref" THEN Ref(new(h[i][k].id)) ELSE h[i][k]]
         IN  [heap |-> [n \in 1..(Len(h) + Cardinality(R)) |->
                            IF n <= Len(h) THEN h[n] ELSE copy(old(n))],
              val |-> Ref(new(val.id))]
    ELSE [heap |-> h, val |-> val]

\* _clone with DEEP taken as SHALLOW
_cloneIn_deepAsShallow(h, val, type) ==
    CASE type = Num(CLONE_SHALLOW) -> YmergeIn(h, val)
      [] type = Num(CLONE_DEEP) -> YmergeIn(h, val)
      [] type = Num(CLONE_IMMUTABLE) -> YcloneIn(h, val)
      [] OTHER -> [heap |-> h, val |-> val]

\* _clone
_cloneIn(h, val, type) ==
    CASE type = Num(CLONE_SHALLOW) -> YmergeIn(h, val)
      [] type = Num(CLONE_DEEP) -> YcloneIn(h, val)
      [] type = Num(CLONE_IMMUTABLE) -> YcloneIn(h, val)
      [] OTHER -> [heap |-> h, val |-> val]

\* get of a whole attribute that has no get transform
getIn(h, d, name) ==
    LET val == StateGet(d, name, VALUE)
        clone == StateGet(d, name, CLONE)
    IN  IF Truthy(clone) THEN _cloneIn(h, val, clone) ELSE [heap |-> h, val |-> val]

\* o[k] = v, or o[k][j] = v, written by the caller into an object it holds
WriteIn(h, ref, path, v) ==
    LET i == IF Len(path) = 1 THEN ref.id ELSE h[ref.id][path[1]].id
        k == path[Len(path)]
    IN  [h EXCEPT ![i] = Put(h[i], k, v)]

(***************************************************************************)
(* The change event.                                                       *)
(***************************************************************************)
\* Y.mix(r, s): the keys of s that r does not have yet
Ymix(r, s) ==
    [k \in DOMAIN r \cup DOMAIN s.f |-> IF k \in DOMAIN r THEN r[k] ELSE s.f[k]]

\* _defAttSet with the validator called on e.newVal, before the setter
_defAttSet_validatesUntransformed(d, e) ==
    LET name == e.attrName.s
        val == e.newVal
        valFn == StateGet(d, name, VALIDATOR)
        setFn == StateGet(d, name, SET)
        retVal == IF Truthy(setFn) THEN Call(setFn, val) ELSE Undef
        val2 == IF Truthy(setFn) /\ retVal # Undef THEN retVal ELSE val
        d2 == IF ~Truthy(valFn) \/ Truthy(Call(valFn, val))
              THEN StateAdd(d, name, Put(NoKeys, VALUE, val2))
              ELSE d
    IN  [data |-> d2, e |-> Put(e, "newVal", val2)]

\* _defAttSet without the test retVal !== undefined
_defAttSet_storesSetterResult(d, e) ==
    LET name == e.attrName.s
        val == e.newVal
        valFn == StateGet(d, name, VALIDATOR)
        setFn == StateGet(d, name, SET)
        val2 == IF Truthy(setFn) THEN Call(setFn, val) ELSE val
        d2 == IF ~Truthy(valFn) \/ Truthy(Call(valFn, val2))
              THEN StateAdd(d, name, Put(NoKeys, VALUE, val2))
              ELSE d
    IN  [data |-> d2, e |-> Put(e, "newVal", val2)]

\* default handler of the change event: e is the event, the result is the
\* store and the event after the handler
\* _defAttSet that stores only what a validator accepted
_defAttSet_requiresValidator(d, e) ==
    LET name == e.attrName.s
        val == e.newVal
        valFn == StateGet(d, name, VALIDATOR)
        setFn == StateGet(d, name, SET)
        retVal == IF Truthy(setFn) THEN Call(setFn, val) ELSE Undef
        val2 == IF Truthy(setFn) /\ retVal # Undef THEN retVal ELSE val
        d2 == IF Truthy(valFn) /\ Truthy(Call(valFn, val2))
              THEN StateAdd(d, name, Put(NoKeys, VALUE, val2))
              ELSE d
    IN  [data |-> d2, e |-> Put(e, "newVal", val2)]

\* _defAttSet that leaves the candidate of the event as it was fired
_defAttSet_keepsEventCandidate(d, e) ==
    LET name == e.attrName.s
        val == e.newVal
        valFn == StateGet(d, name, VALIDATOR)
        setFn == StateGet(d, name, SET)
        retVal == IF Truthy(setFn) THEN Call(setFn, val) ELSE Undef
        val2 == IF Truthy(setFn) /\ retVal # Undef THEN retVal ELSE val
        d2 == IF ~Truthy(valFn) \/ Truthy(Call(valFn, val2))
              THEN StateAdd(d, name, Put(NoKeys, VALUE, val2))
              ELSE d
    IN  [data |-> d2, e |-> e]

\* _defAttSet that stores undefined when the validator rejects
_defAttSet_storesUndefinedOnReject(d, e) ==
    LET name == e.attrName.s
        val == e.newVal
        valFn == StateGet(d, name, VALIDATOR)
        setFn == StateGet(d, name, SET)
        retVal == IF Truthy(setFn) THEN Call(setFn, val) ELSE Undef
        val2 == IF Truthy(setFn) /\ retVal # Undef THEN retVal ELSE val
        d2 == IF ~Truthy(valFn) \/ Truthy(Call(valFn, val2))
              THEN StateAdd(d, name, Put(NoKeys, VALUE, val2))
              ELSE StateAdd(d, name, Put(NoKeys, VALUE, Undef))
    IN  [data |-> d2, e |-> Put(e, "newVal", val2)]

_defAttSet(d, e) ==
    LET name == e.attrName.s
        val == e.newVal
        valFn == StateGet(d, name, VALIDATOR)
        setFn == StateGet(d, name, SET)
        retVal == IF Truthy(setFn) THEN Call(setFn, val) ELSE Undef
        val2 == IF Truthy(setFn) /\ retVal # Undef THEN retVal ELSE val
        d2 == IF ~Truthy(valFn) \/ Truthy(Call(valFn, val2))
              THEN StateAdd(d, name, Put(NoKeys, VALUE, val2))
              ELSE d
    IN  [data |-> d2, e |-> Put(e, "newVal", val2)]

\* this.fire(eData) of an event published with a default handler: the
\* handler runs within the dispatch
fire(d, eData, defaultFn) ==
    IF defaultFn = "_defAttSet" THEN _defAttSet(d, eData) ELSE [data |-> d, e |-> eData]

\* _fireChange with the raw stored value as prevVal
_fireChange_storedAsPrev(d, type, currVal, newVal, attrName, strFullPath, defaultFn, opts) ==
    LET eData == [type |-> Str(type \o CHANGE),
                  prevVal |-> StateGet(d, attrName, VALUE),
                  newVal |-> newVal,
                  attrName |-> Str(attrName),
                  subAttrName |-> strFullPath]
        eData2 == IF Truthy(opts) THEN Ymix(eData, opts) ELSE eData
    IN  fire(d, eData2, "_defAttSet")

_fireChange(d, type, currVal, newVal, attrName, strFullPath, defaultFn, opts) ==
    LET eData == [type |-> Str(type \o CHANGE),
                  prevVal |-> currVal,
                  newVal |-> newVal,
                  attrName |-> Str(attrName),
                  subAttrName |-> strFullPath]
        eData2 == IF Truthy(opts) THEN Ymix(eData, opts) ELSE eData
    IN  fire(d, eData2, "_defAttSet")

(***************************************************************************)
(* set                                                                     *)
(***************************************************************************)
\* initialSet = (!data.value || !(name in data.value)), name as passed
initialSet(d, name) == ~(name \in DOMAIN d[VALUE])

\* The result of one set call: the store after it, how the call ended, and
\* the events it fired (as they are after the dispatch).
SetResult(d, segs, val, opts, d2, init, out, newVal, evs) ==
    [name |-> segs, val |-> val, opts |-> opts, pre |-> d, post |-> d2,
     initialSet |-> init, out |-> out, newVal |-> newVal, events |-> evs]

\* the test made against CLONE_ENUM.DEEP
immutableSubSet_testsDeep(d, name, hasPath) ==
    hasPath /\ StateGet(d, name, CLONE) = Num(CLONE_DEEP)

\* path && conf.get(name, CLONE) === CLONE_ENUM.IMMUTABLE
immutableSubSet(d, name, hasPath) ==
    hasPath /\ StateGet(d, name, CLONE) = Num(CLONE_IMMUTABLE)

set(d, segs, val, opts) ==
    LET init == initialSet(d, NameStr(segs))
        strPath == IF HasDot(segs) THEN Str(NameStr(segs)) ELSE Undef
        path == Tail(segs)
        name == Head(segs)
        currVal == get(d, <<name>>)
        newVal == IF HasDot(segs) THEN _setSubAttVal(path, Yclone(currVal), val) ELSE val
        r == _fireChange(d, name, currVal, newVal, name, strPath, opts, Undef)
    IN  IF immutableSubSet(d, name, HasDot(segs))
        THEN SetResult(d, segs, val, opts, d, init, "immutable", Undef, <<>>)
        ELSE IF ~init /\ Truthy(StateGet(d, name, WRITE_ONCE))
        THEN SetResult(d, segs, val, opts, d, init, "writeOnce", Undef, <<>>)
        ELSE IF ~init /\ Truthy(StateGet(d, name, READ_ONLY))
        THEN SetResult(d, segs, val, opts, d, init, "readOnly", Undef, <<>>)
        ELSE IF HasDot(segs) /\ newVal = Throw
        THEN SetResult(d, segs, val, opts, d, init, "raised", Throw, <<>>)
        ELSE IF HasDot(segs) /\ newVal = Undef
        THEN SetResult(d, segs, val, opts, d, init, "invalidPath", Undef, <<>>)
        ELSE SetResult(d, segs, val, opts, r.data, init, "fired", newVal, <<r.e>>)

(***************************************************************************)
(* setAtts: atts is the hash as the list of its name/value pairs in key     *)
(* order; the result is the list of the results of the set calls.          *)
(***************************************************************************)
RECURSIVE setAtts(_, _)
setAtts(d, atts) ==
    IF atts = <<>> THEN <<>>
    ELSE LET r == set(d, atts[1].name, atts[1].val, Undef)
         IN  <<r>> \o (IF r.out = "raised" THEN <<>> ELSE setAtts(r.post, Tail(atts)))

\* the store after a list of set calls made from store d
PostOf(d, rs) == IF rs = <<>> THEN d ELSE rs[Len(rs)].post

(***************************************************************************)
(* addAtt: the result is the store after conf.add, the list of the results  *)
(* of the set calls (none or one), and the config object as the call       *)
(* leaves it.                                                              *)
(***************************************************************************)
\* addAtt that sets the value before it merges the configuration
addAtt_setsBeforeMerge(d, name, config) ==
    LET hasValue == VALUE \in DOMAIN config
        value == IF hasValue THEN config[VALUE] ELSE Undef
        config2 == IF hasValue THEN Delete(config, VALUE) ELSE config
        r == set(d, <<name>>, value, Undef)
    IN  [added |-> StateAdd(IF hasValue THEN r.post ELSE d, name, config2),
         sets |-> IF hasValue THEN <<[r EXCEPT !.post = StateAdd(r.post, name, config2)]>> ELSE <<>>,
         config |-> config2]

\* addAtt that replaces the record of the attribute
addAtt_replacesRecord(d, name, config) ==
    LET hasValue == VALUE \in DOMAIN config
        value == IF hasValue THEN config[VALUE] ELSE Undef
        config2 == IF hasValue THEN Delete(config, VALUE) ELSE config
        d2 == StateAdd(StateRemove(d, name), name, config2)
    IN  [added |-> d2,
         sets |-> IF hasValue THEN <<set(d2, <<name>>, value, Undef)>> ELSE <<>>,
         config |-> config2]

addAtt(d, name, config) ==
    LET hasValue == VALUE \in DOMAIN config
        value == IF hasValue THEN config[VALUE] ELSE Undef
        config2 == IF hasValue THEN Delete(config, VALUE) ELSE config
        d2 == StateAdd(d, name, config2)
    IN  [added |-> d2,
         sets |-> IF hasValue THEN <<set(d2, <<name>>, value, Undef)>> ELSE <<>>,
         config |-> config2]

\* remove
\* the store holds a value for name
HasValue(d, name) == name \in DOMAIN d[VALUE]

\* a whole-value set that readOnly or writeOnce blocks
Locked(d, name) ==
    HasValue(d, name)
        /\ (Truthy(StateGet(d, name, READ_ONLY)) \/ Truthy(StateGet(d, name, WRITE_ONCE)))

\* getAtts: with atts a copy of atts; without, the keys and values of what
\* conf.get("value") returns, which is the record of the name "value".
\* Y.each copies nothing when it is given undefined.
getAtts(d, atts) ==
    IF Truthy(atts) THEN Yclone(atts)
    ELSE LET rec == StateGetRecord(d, VALUE)
         IN  IF rec = Undef THEN Obj(NoKeys) ELSE rec

\* remove that drops the value and keeps the configuration
remove_keepsConfig(d, name) ==
    [k \in DOMAIN d |-> IF k = VALUE THEN StateRemove(d, name)[k] ELSE d[k]]

remove(d, name) == StateRemove(d, name)

(***************************************************************************)
(* Bulk initialization.  A hash is kept as the list of its pairs in key    *)
(* order: a configuration map as pairs [name, config], a hash of initial   *)
(* values as pairs [name, val] with the name as its segments.              *)
(***************************************************************************)
\* a hash with the pairs ps
Hash(ps) == [t |-> "hash", ps |-> ps]

\* the pairs of a hash, none when it is undefined
HashPairs(h) == IF h = Undef THEN <<>> ELSE h.ps

\* _splitAttVals
_splitAttVals(valueHash) ==
    LET ps == HashPairs(valueHash)
        simpleIdx == {i \in DOMAIN ps : ~HasDot(ps[i].name)}
        complexIdx == {i \in DOMAIN ps : HasDot(ps[i].name)}
        sub(attr) == SelectSeq(ps, LAMBDA p : HasDot(p.name) /\ Head(p.name) = attr)
    IN  [simple |-> [n \in {Head(ps[i].name) : i \in simpleIdx} |->
                        ps[CHOOSE i \in simpleIdx : Head(ps[i].name) = n].val],
         complex |-> [n \in {Head(ps[i].name) : i \in complexIdx} |->
                        [j \in DOMAIN sub(n) |->
                            [path |-> Tail(sub(n)[j].name), value |-> sub(n)[j].val]]]]

\* the loop of _initAttVal over the path overrides: val after the
\* overrides i, i+1, ...
RECURSIVE SubvalsLoop(_, _, _)
SubvalsLoop(subvals, i, val) ==
    IF i <= Len(subvals)
    THEN SubvalsLoop(subvals, i + 1, _setSubAttVal(subvals[i].path, val, subvals[i].value))
    ELSE val

\* the object that val refers to when the loop starts, after the loop:
\* _setSubAttVal writes into it until an override makes val undefined
RECURSIVE SubvalsWritten(_, _, _)
SubvalsWritten(subvals, i, val) ==
    IF i <= Len(subvals)
    THEN LET v == _setSubAttVal(subvals[i].path, val, subvals[i].value)
         IN  IF v = Undef \/ v = Throw THEN val ELSE SubvalsWritten(subvals, i + 1, v)
    ELSE val

\* _initAttVal without the test of readOnly
_initAttVal_ignoresReadOnly(att, cfg, initValues) ==
    LET val0 == Prop(Obj(cfg), VALUE)
        simple == initValues.simple
        complex == initValues.complex
        hasSimple == att \in DOMAIN simple
        hasComplex == att \in DOMAIN complex
        val1 == IF hasSimple THEN simple[att] ELSE val0
        val2 == IF hasComplex THEN SubvalsLoop(complex[att], 1, val1) ELSE val1
    IN  [val |-> val2,
         cfg |-> IF hasComplex /\ ~hasSimple /\ VALUE \in DOMAIN cfg
                 THEN Put(cfg, VALUE, SubvalsWritten(complex[att], 1, val0))
                 ELSE cfg]

\* _initAttVal: val is what it returns; cfg is the configuration after the
\* call, whose value the path overrides write into when no simple override
\* replaced it
_initAttVal(att, cfg, initValues) ==
    LET val0 == Prop(Obj(cfg), VALUE)
        overridable == ~Truthy(Prop(Obj(cfg), READ_ONLY))
        simple == initValues.simple
        complex == initValues.complex
        hasSimple == overridable /\ att \in DOMAIN simple
        hasComplex == overridable /\ att \in DOMAIN complex
        val1 == IF hasSimple THEN simple[att] ELSE val0
        val2 == IF hasComplex THEN SubvalsLoop(complex[att], 1, val1) ELSE val1
    IN  [val |-> val2,
         cfg |-> IF hasComplex /\ ~hasSimple /\ VALUE \in DOMAIN cfg
                 THEN Put(cfg, VALUE, SubvalsWritten(complex[att], 1, val0))
                 ELSE cfg]

\* the loop of _initAtts from the i-th attribute of atts on; added lists
\* the configurations passed to addAtt.  atts[att] is the config object of
\* the configuration map itself (Y.merge copies the map, not its values):
\* after lists, for each attribute, that object and its default value
\* object as the call leaves them.
RECURSIVE InitLoop(_, _, _, _)

\* the results of the i-th attribute, whose addAtt call returned a, joined
\* with those of the attributes after it
InitJoin(att, r, attCfg, a, rest) ==
    [data |-> rest.data,
     sets |-> a.sets \o rest.sets,
     added |-> <<[name |-> att, config |-> attCfg]>> \o rest.added,
     after |-> <<[name |-> att, config |-> a.config,
                  default |-> Prop(Obj(r.cfg), VALUE)]>> \o rest.after]

\* this.addAtt(att, attCfg), and the attributes after the i-th
InitAdd(atts, i, values, r, attCfg, a) ==
    InitJoin(atts[i].name, r, attCfg, a,
             InitLoop(PostOf(a.added, a.sets), atts, i + 1, values))

\* if (value !== undefined) attCfg.value = value
InitValue(d, atts, i, values, r, attCfg) ==
    InitAdd(atts, i, values, r, attCfg, addAtt(d, atts[i].name, attCfg))

\* the i-th attribute, for which _initAttVal returned r
InitAtt(d, atts, i, values, r) ==
    InitValue(d, atts, i, values, r,
              IF r.val # Undef THEN Put(r.cfg, VALUE, r.val) ELSE r.cfg)

InitLoop(d, atts, i, values) ==
    IF i > Len(atts) THEN [data |-> d, sets |-> <<>>, added |-> <<>>, after |-> <<>>]
    ELSE InitAtt(d, atts, i, values, _initAttVal(atts[i].name, atts[i].config, values))

\* _initAtts
_initAtts(d, cfg, initValues) ==
    IF cfg # Undef
    THEN InitLoop(d, HashPairs(Ymerge(cfg)), 1, _splitAttVals(initValues))
    ELSE [data |-> d, sets |-> <<>>, added |-> <<>>, after |-> <<>>]

(***************************************************************************)
(* Inputs.                                                                 *)
(***************************************************************************)
\* "a" is the attribute the host configures with addAtt; "b" is never
\* configured and only set
Names == {"a", "b"}

ConfiguredNames == {"a"}

\* the sub path of length n: k, k.j, k.j.k, ...
RECURSIVE PathOf(_)
PathOf(n) ==
    IF n = 0 THEN <<>>
    ELSE PathOf(n - 1) \o <<IF n % 2 = 1 THEN "k" ELSE "j">>

\* names passed to get: "a", "b", "a.k", "a.k.j", ...
CallNames ==
    {<<n>> : n \in Names} \cup {<<n>> \o PathOf(l) : n \in ConfiguredNames, l \in 1..MaxPathLen}

\* names of the configured attribute and of its sub values
ConfiguredCallNames == {segs \in CallNames : Head(segs) \in ConfiguredNames}

\* { k: { j: 1 } }
ObjIn == Obj(Put(NoKeys, "k", Obj(Put(NoKeys, "j", Num(1)))))

\* values passed to set
Vals == {Undef, ObjIn} \cup {Num(n) : n \in 0..MaxNum}

\* a third argument of set: { src: "ui" }
OptsIn == Obj(Put(NoKeys, "src", Str("ui")))

\* values of the value field of a configuration passed to addAtt
InitVals == {Num(0), ObjIn}

\* attribute configurations passed to addAtt, without the value field
Configs ==
    { NoKeys,
      Put(NoKeys, READ_ONLY, Bool(TRUE)),
      Put(NoKeys, WRITE_ONCE, Bool(TRUE)),
      Put(NoKeys, CLONE, Num(CLONE_IMMUTABLE)),
      Put(Put(NoKeys, SET, Fn("min1")), VALIDATOR, Fn("nonZero")),
      Put(NoKeys, VALIDATOR, Fn("hasK")),
      Put(NoKeys, GET, Fn("withJ")),
      Put(Put(Put(NoKeys, WRITE_ONCE, Bool(TRUE)), SET, Fn("min1")), VALIDATOR, Fn("hasK")) }

AddConfigs == Configs \cup {Put(c, VALUE, v) : c \in Configs, v \in InitVals}

\* the configuration fields the store holds for name
ConfigOf(d, name) ==
    LET ks == {k \in Fields \ {VALUE} : name \in DOMAIN d[k]}
    IN  [k \in ks |-> d[k][name]]

\* name and value of a set call: every value on the configured attribute,
\* the primitive values on its sub values, one value on the attribute that
\* is never configured
Pair(segs, val) == [name |-> segs, val |-> val]

SetArgs ==
    {Pair(segs, val) : segs \in ConfiguredCallNames, val \in Vals \ {ObjIn}}
        \cup {Pair(<<n>>, ObjIn) : n \in ConfiguredNames}
        \cup {Pair(<<"b">>, Num(1))}

\* the set calls: each without opts, and those with the number 1 also with opts
SetCalls ==
    {[name |-> a.name, val |-> a.val, opts |-> Undef] : a \in SetArgs}
        \cup {[name |-> a.name, val |-> a.val, opts |-> OptsIn] : a \in {x \in SetArgs : x.val = Num(1)}}

\* hashes passed to setAtts: the pairs of { a: ObjIn, "a.k": 0, b: 1 } taken
\* in this key order, at most MaxAtts of them
AttsPairs ==
    << Pair(<<"a">>, ObjIn), Pair(<<"a", "k">>, Num(0)), Pair(<<"b">>, Num(1)) >>

AttsHashes ==
    {s \in UNION {[1..n -> {AttsPairs[i] : i \in DOMAIN AttsPairs}] : n \in 0..MaxAtts} :
        \A i, j \in DOMAIN s :
            i < j => \E x, y \in DOMAIN AttsPairs : x < y /\ s[i] = AttsPairs[x] /\ s[j] = AttsPairs[y]}

\* arguments of getAtts: none, and { a: 0 }
GetAttsArgs == {Undef, Obj(Put(NoKeys, "a", Num(0)))}

\* { k: 0 }
ObjK0 == Obj(Put(NoKeys, "k", Num(0)))

\* attribute configurations of a configuration map
InitConfigs ==
    { NoKeys,
      Put(NoKeys, VALUE, ObjIn),
      Put(NoKeys, READ_ONLY, Bool(TRUE)),
      Put(Put(NoKeys, READ_ONLY, Bool(TRUE)), VALUE, ObjIn),
      Put(Put(NoKeys, VALIDATOR, Fn("hasK")), VALUE, ObjIn) }

\* configuration maps passed to _initAtts: none, { a: c } and
\* { a: c, b: { value: 0 } }
ConfigMaps ==
    {Undef}
        \cup {Hash(<<[name |-> "a", config |-> c]>>) : c \in InitConfigs}
        \cup {Hash(<<[name |-> "a", config |-> c],
                     [name |-> "b", config |-> Put(NoKeys, VALUE, Num(0))]>>) : c \in InitConfigs}

\* the pairs of initial values: a, a.k, a.k.j, a.j.k and b
InitPairs ==
    { Pair(<<"a">>, ObjK0), Pair(<<"a", "k">>, Num(0)), Pair(<<"a", "k", "j">>, Num(0)),
      Pair(<<"a", "j", "k">>, Num(1)), Pair(<<"b">>, Num(1)) }

\* hashes of initial values passed to _initAtts: none, and at most
\* MaxInitValues of the pairs in any key order
InitValueHashes ==
    {Undef} \cup
    {Hash(h) : h \in {x \in UNION {[1..n -> InitPairs] : n \in 0..MaxInitValues} :
                            \A i, j \in DOMAIN x : i # j => x[i] # x[j]}}

(***************************************************************************)
(* State.                                                                  *)
(***************************************************************************)
VARIABLES
    data,   \* this._conf.data
    call,   \* the last call made on the host
    sets,   \* the results of the set calls made within the last call
    ret,    \* what the last call returned
    heap    \* the objects, where the model keeps references

vars == <<data, call, sets, ret, heap>>

Init ==
    /\ data = EmptyState
    /\ call = [op |-> "new"]
    /\ sets = <<>>
    /\ ret = Undef
    /\ heap = <<>>

\* The host configures an attribute once: it adds it again only with the same
\* configuration or with none (and possibly a value), or after it removed it.
AddAtt ==
    \E name \in ConfiguredNames, config \in AddConfigs :
        LET r == addAtt(data, name, config)
        IN  /\ \/ ConfigOf(data, name) \in {NoKeys, Delete(config, VALUE)}
               \/ Delete(config, VALUE) = NoKeys
            /\ data' = PostOf(r.added, r.sets)
            /\ call' = [op |-> "addAtt", name |-> name, config |-> config]
            /\ sets' = r.sets
            /\ ret' = Undef
            /\ UNCHANGED heap

\* locked records whether readOnly or writeOnce had locked the attribute
\* that the call removed
Remove ==
    \E name \in Names :
        /\ data' = remove(data, name)
        /\ call' = [op |-> "remove", name |-> name, locked |-> Locked(data, name)]
        /\ sets' = <<>>
        /\ ret' = Undef
        /\ UNCHANGED heap

Get ==
    \E segs \in CallNames :
        /\ call' = [op |-> "get", name |-> segs]
        /\ ret' = get(data, segs)
        /\ sets' = <<>>
        /\ UNCHANGED <<data, heap>>

Set ==
    \E c \in SetCalls :
        LET r == set(data, c.name, c.val, c.opts)
        IN  /\ data' = r.post
            /\ call' = [op |-> "set", name |-> c.name, val |-> c.val, opts |-> c.opts]
            /\ sets' = <<r>>
            /\ ret' = IF r.out = "raised" THEN Throw ELSE Str("this")
            /\ UNCHANGED heap

SetAtts ==
    \E atts \in AttsHashes :
        LET rs == setAtts(data, atts)
        IN  /\ data' = PostOf(data, rs)
            /\ call' = [op |-> "setAtts", atts |-> atts]
            /\ sets' = rs
            /\ ret' = IF rs # <<>> /\ rs[Len(rs)].out = "raised" THEN Throw ELSE Undef
            /\ UNCHANGED heap

GetAtts ==
    \E atts \in GetAttsArgs :
        /\ call' = [op |-> "getAtts", atts |-> atts]
        /\ ret' = getAtts(data, atts)
        /\ sets' = <<>>
        /\ UNCHANGED <<data, heap>>

\* the constructor of the host calls _initAtts once, on the new host;
\* added records the configurations that the call passed to addAtt, after
\* the config objects of the configuration map as the call left them
InitAtts ==
    /\ call.op = "new"
    /\ \E cfg \in ConfigMaps, initValues \in InitValueHashes :
            \E r \in {_initAtts(data, cfg, initValues)} :
                /\ data' = r.data
                /\ call' = [op |-> "_initAtts", cfg |-> cfg, initValues |-> initValues,
                            added |-> r.added, after |-> r.after]
                /\ sets' = r.sets
                /\ ret' = Undef
                /\ UNCHANGED heap

\* the configuration map as a call of _initAtts left it
MapAfter(after) == Hash([i \in DOMAIN after |-> [name |-> after[i].name, config |-> after[i].config]])

\* A second host is constructed from the configuration map of the first,
\* without initial values; from here on data is the store of the second
\* host.  cfg stays the map as it was before the first call.
InitSecond ==
    /\ call.op = "_initAtts"
    /\ call.cfg # Undef
    /\ \E r \in {_initAtts(EmptyState, MapAfter(call.after), Hash(<<>>))} :
            /\ data' = r.data
            /\ call' = [op |-> "_initAtts second", cfg |-> call.cfg,
                        added |-> r.added, after |-> r.after]
            /\ sets' = r.sets
            /\ ret' = Undef
            /\ UNCHANGED heap

Next == AddAtt \/ Remove \/ Get \/ Set \/ SetAtts \/ GetAtts

Spec == Init /\ [][Next]_vars

\* a host that is constructed with a configuration map and initial values,
\* and then read
NextInit == InitAtts \/ InitSecond \/ Get \/ GetAtts

SpecInit == Init /\ [][NextInit]_vars

\* the clone policies of an attribute: no clone field, NONE, DEEP, SHALLOW
\* and IMMUTABLE
ClonePolicies ==
    {NoKeys} \cup {Put(NoKeys, CLONE, Num(c)) :
                        c \in {CLONE_NONE, CLONE_DEEP, CLONE_SHALLOW, CLONE_IMMUTABLE}}

\* A host after addAtt("a", { clone: c, value: o }) with o = { k: { j: 1 } }:
\* the store holds o itself, the object 1 of the heap.
InitClone ==
    /\ \E config \in ClonePolicies :
            data = StateAdd(EmptyState, "a", Put(config, VALUE, Ref(1)))
    /\ heap = << Put(NoKeys, "k", Ref(2)), Put(NoKeys, "j", Num(1)) >>
    /\ call = [op |-> "addAtt"]
    /\ sets = <<>>
    /\ ret = Undef

\* get("a"), as long as the heap has room for a deep copy
GetRef ==
    LET r == getIn(heap, data, "a")
    IN  /\ Len(heap) + 2 <= MaxObjs
        /\ heap' = r.heap
        /\ ret' = r.val
        /\ call' = [op |-> "get", name |-> <<"a">>]
        /\ UNCHANGED <<data, sets>>

\* the caller writes a number into the object that the last get returned:
\* at its key k, or at the key j of the object at its key k
Mutate ==
    \E path \in {<<"k">>, <<"k", "j">>}, n \in 0..MaxNum :
        /\ ret.t = "ref"
        /\ Len(path) = 2 => heap[ret.id][path[1]].t = "ref"
        /\ heap' = WriteIn(heap, ret, path, Num(n))
        /\ call' = [op |-> "write", path |-> path]
        /\ UNCHANGED <<data, sets, ret>>

NextClone == GetRef \/ Mutate

SpecClone == InitClone /\ [][NextClone]_vars

(***************************************************************************)
(* Properties.  They are stated on the results of the set calls of the     *)
(* last call on the host (one for set, none or one for addAtt, one per key *)
(* for setAtts).                                                           *)
(***************************************************************************)
\* the attribute a set call addresses
BaseOf(r) == Head(r.name)

\* the value of name is the same in both stores
SameValue(d1, d2, name) ==
    /\ HasValue(d1, name) <=> HasValue(d2, name)
    /\ StateGet(d1, name, VALUE) = StateGet(d2, name, VALUE)

\* C1: every set call (whole value or sub path, direct, via addAtt or via
\* setAtts) addressed to a readOnly attribute that has a value leaves the
\* stored value of the attribute unchanged.
C1_ReadOnlySetIsNoOp ==
    \A i \in DOMAIN sets :
        LET r == sets[i]
        IN  (Truthy(StateGet(r.pre, BaseOf(r), READ_ONLY)) /\ HasValue(r.pre, BaseOf(r)))
                => SameValue(r.pre, r.post, BaseOf(r))

\* C2: once a writeOnce attribute has been written, every later set call
\* (whole value or sub path) leaves its stored value unchanged, so the value
\* changes at most once.
C2_WriteOnceChangesOnce ==
    \A i \in DOMAIN sets :
        LET r == sets[i]
        IN  (HasValue(r.pre, BaseOf(r)) /\ Truthy(StateGet(r.pre, BaseOf(r), WRITE_ONCE)))
                => (r.out = "writeOnce" /\ SameValue(r.pre, r.post, BaseOf(r)))

\* C3: a set call is treated as the initial assignment exactly when the
\* attribute before the first separator has no value in the store, and the
\* readOnly and writeOnce flags block a call only when it is not the
\* initial assignment.
C3_InitialSetIffNoValue ==
    \A i \in DOMAIN sets :
        LET r == sets[i]
        IN  /\ r.initialSet <=> ~HasValue(r.pre, BaseOf(r))
            /\ r.out \in {"readOnly", "writeOnce"} => ~r.initialSet

\* the candidate after the set transform of name
Transformed(d, name, v) ==
    LET setFn == StateGet(d, name, SET)
    IN  IF Truthy(setFn) /\ Call(setFn, v) # Undef THEN Call(setFn, v) ELSE v

\* name has no validator, or its validator returns true on v
Accepted(d, name, v) ==
    LET valFn == StateGet(d, name, VALIDATOR)
    IN  ~Truthy(valFn) \/ Truthy(Call(valFn, v))

\* successive key lookups from v, undefined when a key or an object is missing
RECURSIVE Lookup(_, _)
Lookup(v, path) ==
    IF path = <<>> THEN v
    ELSE IF v.t = "obj" /\ path[1] \in DOMAIN v.f
         THEN Lookup(v.f[path[1]], Tail(path))
         ELSE Undef

\* C4: on an attribute with clone=IMMUTABLE a sub-path set changes nothing
\* and fires no event, and a whole-value set that readOnly, writeOnce and
\* the validator do not block replaces the stored value.
C4_ImmutableSubPath ==
    \A i \in DOMAIN sets :
        LET r == sets[i]
            n == BaseOf(r)
            cand == Transformed(r.pre, n, r.val)
        IN  StateGet(r.pre, n, CLONE) = Num(CLONE_IMMUTABLE) =>
                /\ HasDot(r.name) => (r.post = r.pre /\ r.events = <<>>)
                /\ (~HasDot(r.name) /\ ~Locked(r.pre, n) /\ Accepted(r.pre, n, cand))
                        => (HasValue(r.post, n) /\ StateGet(r.post, n, VALUE) = cand)

\* one setAtts call on an IMMUTABLE attribute replaced the whole value and
\* then made a sub-path set on the new object
C4_Witness ==
    \E i, j \in DOMAIN sets :
        /\ i < j
        /\ BaseOf(sets[i]) = BaseOf(sets[j])
        /\ StateGet(sets[i].pre, BaseOf(sets[i]), CLONE) = Num(CLONE_IMMUTABLE)
        /\ ~HasDot(sets[i].name)
        /\ HasValue(sets[i].pre, BaseOf(sets[i]))
        /\ ~SameValue(sets[i].pre, sets[i].post, BaseOf(sets[i]))
        /\ HasDot(sets[j].name)
        /\ StateGet(sets[j].pre, BaseOf(sets[j]), VALUE).t = "obj"

\* C5: the validator is called on the candidate after the set transform;
\* without validator or when it returns true the candidate is stored, when
\* it returns false the store is as before and get returns the old value.
C5_ValidatorOnTransformed ==
    \A i \in DOMAIN sets :
        LET r == sets[i]
            n == BaseOf(r)
            cand == Transformed(r.pre, n, r.newVal)
        IN  r.out = "fired" =>
                IF Accepted(r.pre, n, cand)
                THEN HasValue(r.post, n) /\ StateGet(r.post, n, VALUE) = cand
                ELSE r.post = r.pre /\ get(r.post, <<n>>) = get(r.pre, <<n>>)

\* the validator returned false on a set of an attribute that holds a value
C5_Witness ==
    \E i \in DOMAIN sets :
        LET r == sets[i]
            n == BaseOf(r)
        IN  /\ r.out = "fired"
            /\ Truthy(StateGet(r.pre, n, VALIDATOR))
            /\ ~Accepted(r.pre, n, Transformed(r.pre, n, r.newVal))
            /\ StateGet(r.pre, n, VALUE) # Undef
            /\ get(r.post, <<n>>) # r.val

\* C6: with a set transform f, a whole-value set(name, v) that is not
\* rejected stores f(v) when f(v) is defined and v when f(v) is undefined.
C6_SetterResultOrCandidate ==
    \A i \in DOMAIN sets :
        LET r == sets[i]
            n == BaseOf(r)
            setFn == StateGet(r.pre, n, SET)
            fv == Call(setFn, r.val)
            kept == IF fv # Undef THEN fv ELSE r.val
        IN  (~HasDot(r.name) /\ Truthy(setFn) /\ ~Locked(r.pre, n) /\ Accepted(r.pre, n, kept))
                => (HasValue(r.post, n) /\ StateGet(r.post, n, VALUE) = kept)

\* the set transform returned undefined and the candidate, defined, was stored
C6_Witness ==
    \E i \in DOMAIN sets :
        LET r == sets[i]
            n == BaseOf(r)
            setFn == StateGet(r.pre, n, SET)
        IN  /\ ~HasDot(r.name)
            /\ Truthy(setFn)
            /\ Call(setFn, r.val) = Undef
            /\ r.val # Undef
            /\ StateGet(r.pre, n, VALUE) # r.val
            /\ StateGet(r.post, n, VALUE) = r.val

\* C7: every field of the opts passed to set is on the change event the
\* set emits.
C7_OptsOnEvent ==
    \A i \in DOMAIN sets :
        LET r == sets[i]
        IN  (r.out = "fired" /\ r.opts # Undef) =>
                \A k \in DOMAIN r.opts.f :
                    k \in DOMAIN r.events[1] /\ r.events[1][k] = r.opts.f[k]

\* v is m or holds m at some depth
RECURSIVE Contains(_, _)
Contains(v, m) ==
    \/ v = m
    \/ v.t = "obj" /\ \E k \in DOMAIN v.f : Contains(v.f[k], m)

\* C8: no stored value holds an output of the get transform.
C8_GetterNeverStored ==
    \A n \in DOMAIN data[VALUE] : ~Contains(data[VALUE][n], GetMark)

\* some segment before the leaf of the sub path is undefined in what get
\* returns for the attribute
InvalidPath(r) ==
    /\ HasDot(r.name)
    /\ \E l \in 0..(Len(r.name) - 2) :
            Lookup(get(r.pre, <<BaseOf(r)>>), SubSeq(Tail(r.name), 1, l)) = Undef

Rejections == {"immutable", "writeOnce", "readOnly", "invalidPath"}

\* C9: a set call rejected for readOnly, writeOnce, an immutable sub path
\* or an invalid path raises nothing, returns the host, fires no event and
\* leaves the whole store unchanged.
C9_RejectedSetIsSilent ==
    /\ \A i \in DOMAIN sets :
            LET r == sets[i]
            IN  /\ r.out # "raised"
                /\ (r.out \in Rejections \/ InvalidPath(r))
                        => (r.out \in Rejections /\ r.post = r.pre /\ r.events = <<>>)
    /\ ret # Throw
    /\ call.op = "set" => ret = Str("this")

\* a sub-path set was rejected for an undefined segment while both
\* attributes held a value
C9_Witness ==
    /\ call.op = "set"
    /\ \E i \in DOMAIN sets :
            /\ sets[i].out = "invalidPath"
            /\ InvalidPath(sets[i])
            /\ \A n \in Names : StateGet(sets[i].pre, n, VALUE) # Undef

\* the sub paths that two sets may address
AllPaths == UNION {[1..n -> {"k", "j"}] : n \in 1..(MaxPathLen + 1)}

\* neither path is a prefix of the other
Apart(p, q) ==
    \E l \in 1..Len(p) : l <= Len(q) /\ p[l] # q[l]

\* C10: a sub-path set whose segments before the leaf are all objects of
\* the stored value, and that nothing rejects, stores a value with v at the
\* leaf and every other part as before, and a following get of the same
\* name returns v.
C10_SubPathSetWritesLeaf ==
    \A i \in DOMAIN sets :
        LET r == sets[i]
            n == BaseOf(r)
            path == Tail(r.name)
            old == StateGet(r.pre, n, VALUE)
            new == StateGet(r.post, n, VALUE)
        IN  ( /\ HasDot(r.name)
              /\ r.out = "fired"
              /\ \A l \in 0..(Len(path) - 1) : Lookup(old, SubSeq(path, 1, l)).t = "obj"
              /\ Accepted(r.pre, n, Transformed(r.pre, n, r.newVal)) )
            => /\ Lookup(new, path) = r.val
               /\ \A q \in AllPaths : Apart(path, q) => Lookup(new, q) = Lookup(old, q)
               /\ get(r.post, r.name) = r.val

\* what get returns for the whole attribute: the stored value through the
\* get transform (a clone has the content of the value it copies)
BaseView(d, name) ==
    LET getFn == StateGet(d, name, GET)
    IN  IF Truthy(getFn) THEN Call(getFn, StateGet(d, name, VALUE))
        ELSE StateGet(d, name, VALUE)

\* C11: get("base.k1...kn") returns the successive key lookups k1..kn on
\* the get-transformed value of base, undefined as soon as a value on the
\* way is undefined (also when base has no record or no value), and never
\* raises.
C11_GetSubPath ==
    call.op = "get" =>
        /\ ret # Throw
        /\ ret = Lookup(BaseView(data, Head(call.name)), Tail(call.name))

\* a get two segments deep stopped at an undefined first segment of an
\* attribute that holds an object
C11_Witness ==
    /\ call.op = "get"
    /\ Len(call.name) = 3
    /\ BaseView(data, Head(call.name)).t = "obj"
    /\ Lookup(BaseView(data, Head(call.name)), <<call.name[2]>>) = Undef
    /\ ret = Undef

\* C12: a set call that is not rejected fires exactly one event, of type
\* "<base>Change", with prevVal what get(base) returned before the set,
\* attrName the base name and subAttrName the dotted name of a sub-path set
\* and undefined for a whole-value set; a rejected call fires none.
C12_OneChangeEvent ==
    \A i \in DOMAIN sets :
        LET r == sets[i]
            n == BaseOf(r)
        IN  IF r.out \in Rejections
            THEN r.events = <<>>
            ELSE /\ Len(r.events) = 1
                 /\ r.events[1].type = Str(n \o "Change")
                 /\ r.events[1].prevVal = BaseView(r.pre, n)
                 /\ r.events[1].attrName = Str(n)
                 /\ r.events[1].subAttrName =
                        IF HasDot(r.name) THEN Str(NameStr(r.name)) ELSE Undef

\* a sub-path set fired its event on an attribute whose get transform makes
\* prevVal differ from the stored value
C12_Witness ==
    \E i \in DOMAIN sets :
        LET r == sets[i]
        IN  /\ r.out = "fired"
            /\ HasDot(r.name)
            /\ HasValue(r.pre, BaseOf(r))
            /\ r.events[1].prevVal # StateGet(r.pre, BaseOf(r), VALUE)

SameField(d1, d2, name, k) ==
    /\ name \in DOMAIN d1[k] <=> name \in DOMAIN d2[k]
    /\ StateGet(d1, name, k) = StateGet(d2, name, k)

\* C16: addAtt(name, config) on a name that has a record merges into it:
\* every field that config does not mention is after the call as it was
\* before, the stored value included when config has no value field, and
\* the records of the other names are as before.
C16_AddAttMerges ==
    [][call'.op = "addAtt" =>
            /\ \A k \in Fields \ DOMAIN call'.config :
                    SameField(data, data', call'.name, k)
            /\ \A n \in Names \ {call'.name}, k \in Fields :
                    SameField(data, data', n, k)]_vars

\* addAtt with an empty configuration was called on an attribute that has
\* a flag or a function and a value, and both are still there
C16_Witness ==
    /\ call.op = "addAtt"
    /\ call.config = NoKeys
    /\ ConfigOf(data, call.name) # NoKeys
    /\ HasValue(data, call.name)

\* no field of the store holds name
NoRecord(d, name) == \A k \in DOMAIN d : name \notin DOMAIN d[k]

\* C17: after remove(name) the store holds nothing for name, and as long
\* as it holds nothing for name, get(name) and get of its sub values return
\* undefined and set(name, v) is an initial assignment that fires its event
\* and stores v as it is, for every v.
C17_RemovedIsUnconfigured ==
    /\ call.op = "remove" => NoRecord(data, call.name)
    /\ \A n \in Names :
            NoRecord(data, n) =>
                /\ \A segs \in CallNames : Head(segs) = n => get(data, segs) = Undef
                /\ \A v \in Vals :
                        LET r == set(data, <<n>>, v, Undef)
                        IN  /\ r.initialSet
                            /\ r.out = "fired"
                            /\ HasValue(r.post, n)
                            /\ r.post[VALUE][n] = v
                            /\ ConfigOf(r.post, n) = NoKeys

\* remove was called on an attribute that readOnly or writeOnce had locked
C17_Witness ==
    /\ call.op = "remove"
    /\ call.locked
    /\ NoRecord(data, call.name)

\* C18: on an attribute without get transform, set transform and validator,
\* with clone NONE or no clone field, that readOnly and writeOnce do not
\* lock, set(name, v) with a name without separator followed by get(name)
\* returns v.
C18_SetGetRoundTrip ==
    \A i \in DOMAIN sets :
        LET r == sets[i]
            n == BaseOf(r)
        IN  (/\ ~HasDot(r.name)
             /\ ~Truthy(StateGet(r.pre, n, GET))
             /\ ~Truthy(StateGet(r.pre, n, SET))
             /\ ~Truthy(StateGet(r.pre, n, VALIDATOR))
             /\ ~Truthy(StateGet(r.pre, n, CLONE))
             /\ ~Locked(r.pre, n))
                => get(r.post, r.name) = r.val

\* an object replaced another value of such an attribute
C18_Witness ==
    \E i \in DOMAIN sets :
        LET r == sets[i]
            n == BaseOf(r)
        IN  /\ ~HasDot(r.name)
            /\ ConfigOf(r.pre, n) \in {NoKeys, Put(NoKeys, WRITE_ONCE, Bool(TRUE))}
            /\ ~Locked(r.pre, n)
            /\ r.val = ObjIn
            /\ get(r.pre, r.name) = Num(0)
            /\ get(r.post, r.name) = ObjIn

\* C20: getAtts() without argument returns a mapping whose names are
\* exactly the attributes that hold a value, each with the current value
\* of the attribute (the stored value, or what get returns for it).
C20_GetAttsAllValues ==
    (call.op = "getAtts" /\ call.atts = Undef) =>
        /\ ret.t = "obj"
        /\ DOMAIN ret.f = DOMAIN data[VALUE]
        /\ \A n \in DOMAIN data[VALUE] :
                ret.f[n] \in {data[VALUE][n], get(data, <<n>>)}

\* the configuration of name in the configuration map of the call
ConfigIn(name) ==
    LET ps == HashPairs(call.cfg)
        i == CHOOSE i \in DOMAIN ps : ps[i].name = name
    IN  ps[i].config

\* the path overrides of name in the initial values of the call
OverridesOf(name) ==
    SelectSeq(HashPairs(call.initValues), LAMBDA p : HasDot(p.name) /\ Head(p.name) = name)

\* the initial values of the call have a simple override of name
HasSimple(name) ==
    \E i \in DOMAIN HashPairs(call.initValues) :
        HashPairs(call.initValues)[i].name = <<name>>

\* C13: in a bulk initialization, a readOnly attribute is registered with
\* the configuration of the configuration map as it is: its value is the
\* default when there is one and it gets no value when there is none,
\* whatever simple and path overrides the initial values hold for it.
C13_ReadOnlyKeepsDefault ==
    (call.op = "_initAtts" /\ call.cfg # Undef) =>
        \A i \in DOMAIN call.added :
            LET n == call.added[i].name
                cfgIn == ConfigIn(n)
            IN  (READ_ONLY \in DOMAIN cfgIn /\ Truthy(cfgIn[READ_ONLY])) =>
                    /\ call.added[i].config = cfgIn
                    /\ HasValue(data, n) <=> VALUE \in DOMAIN cfgIn
                    /\ HasValue(data, n) => data[VALUE][n] = cfgIn[VALUE]

\* a readOnly attribute with a default object was initialized with a simple
\* and a path override for it, and holds the default
C13_Witness ==
    /\ call.op = "_initAtts"
    /\ call.cfg # Undef
    /\ Truthy(Prop(Obj(ConfigIn("a")), READ_ONLY))
    /\ HasSimple("a")
    /\ OverridesOf("a") # <<>>
    /\ HasValue(data, "a")
    /\ data[VALUE]["a"] = ObjIn

\* v with x written at path; a write into a value that is not an object is
\* ignored
RECURSIVE Written(_, _, _)
Written(v, path, x) ==
    IF path = <<>> THEN x
    ELSE IF v.t = "obj"
         THEN Obj(Put(v.f, path[1], Written(Lookup(v, <<path[1]>>), Tail(path), x)))
         ELSE v

\* every segment of path before the leaf is defined in v
ValidPath(v, path) ==
    \A l \in 0..(Len(path) - 1) : Lookup(v, SubSeq(path, 1, l)) # Undef

\* v after the path overrides i, i+1, ... of ovs, an override with an
\* undefined segment having no effect
RECURSIVE Overridden(_, _, _)
Overridden(v, ovs, i) ==
    IF i > Len(ovs) THEN v
    ELSE Overridden(IF ValidPath(v, Tail(ovs[i].name))
                    THEN Written(v, Tail(ovs[i].name), ovs[i].val)
                    ELSE v,
                    ovs, i + 1)

\* the value an attribute that is not readOnly is to be registered with
ExpectedInit(name) ==
    LET ps == HashPairs(call.initValues)
        start == IF HasSimple(name)
                 THEN ps[CHOOSE i \in DOMAIN ps : ps[i].name = <<name>>].val
                 ELSE Prop(Obj(ConfigIn(name)), VALUE)
    IN  Overridden(start, OverridesOf(name), 1)

\* C14: in a bulk initialization, an attribute that is not readOnly is
\* registered with its default, replaced by the simple override when there
\* is one, with the path overrides then applied in list order to the value
\* reached so far; a path override with an undefined segment before its
\* leaf has no effect, and the simple override and the other path
\* overrides are kept.
C14_OverridesApplied ==
    (call.op = "_initAtts" /\ call.cfg # Undef) =>
        \A i \in DOMAIN call.added :
            LET n == call.added[i].name
                cfgIn == ConfigIn(n)
                config == call.added[i].config
            IN  ~Truthy(Prop(Obj(cfgIn), READ_ONLY)) =>
                    /\ Delete(config, VALUE) = Delete(cfgIn, VALUE)
                    /\ Prop(Obj(config), VALUE) = ExpectedInit(n)

\* the reference the store holds for the attribute a of the clone policies
Stored == data[VALUE]["a"]

\* the clone policy of a
PolicyOf == StateGet(data, "a", CLONE)

\* { k: { j: 0 } }
ObjKJ0 == Obj(Put(NoKeys, "k", Obj(Put(NoKeys, "j", Num(0)))))

\* C19: with clone DEEP or IMMUTABLE the object that get returns has no
\* object in common with the stored value, and no write into it at any
\* depth changes what the store holds and what a later get returns; with
\* SHALLOW get returns a new object whose keys hold what the keys of the
\* stored object hold, the nested objects themselves; with NONE or no clone
\* field get returns the stored object itself, so a write into it is a
\* write into the stored value.
C19_ClonePolicyOnRead ==
    /\ PolicyOf \in {Num(CLONE_DEEP), Num(CLONE_IMMUTABLE)} =>
            /\ Deref(heap, Stored) = ObjIn
            /\ ret.t = "ref" => Reach(heap, ret) \cap Reach(heap, Stored) = {}
            /\ call.op = "get" => Deref(heap, ret) = ObjIn
    /\ PolicyOf = Num(CLONE_SHALLOW) =>
            /\ heap[Stored.id] = Put(NoKeys, "k", Ref(2))
            /\ ret.t = "ref" => ret # Stored
            /\ call.op = "get" => heap[ret.id] = heap[Stored.id]
    /\ PolicyOf \in {Undef, Num(CLONE_NONE)} =>
            /\ ret.t = "ref" => ret = Stored
            /\ call.op = "get" => Deref(heap, ret) = Deref(heap, Stored)

\* under DEEP or IMMUTABLE the caller wrote at depth two into the object a
\* get returned, and a later get returned an object with the original
\* content while the first one stays written
C19_Witness ==
    /\ PolicyOf \in {Num(CLONE_DEEP), Num(CLONE_IMMUTABLE)}
    /\ call.op = "get"
    /\ Deref(heap, ret) = ObjIn
    /\ \E i \in DOMAIN heap : Deref(heap, Ref(i)) = ObjKJ0

\* the validator of name rejected the candidate of the set call r
Vetoed(r) ==
    /\ r.out = "fired"
    /\ ~Accepted(r.pre, BaseOf(r), Transformed(r.pre, BaseOf(r), r.newVal))

\* C21: after the dispatch of a change event its newVal is the candidate
\* after the set transform (the candidate itself without transform or when
\* the transform returns undefined), also when the validator returned
\* false; and after a set that the validator rejected, newVal differs from
\* the stored value.
C21_EventReportsCandidate ==
    \A i \in DOMAIN sets :
        LET r == sets[i]
            n == BaseOf(r)
        IN  r.out = "fired" =>
                /\ r.events[1].newVal = Transformed(r.pre, n, r.newVal)
                /\ Vetoed(r) => r.events[1].newVal # StateGet(r.post, n, VALUE)

\* C21 as it stands for every set: the newVal of the event is the candidate
\* after the set transform also when the validator returned false, and
\* after a set that the validator rejected it differs from the stored
\* value when the attribute holds a value that the validator accepts, or
\* holds none and the reported candidate is defined.
C21_EventReportsCandidateAmended ==
    \A i \in DOMAIN sets :
        LET r == sets[i]
            n == BaseOf(r)
            stored == StateGet(r.post, n, VALUE)
        IN  r.out = "fired" =>
                /\ r.events[1].newVal = Transformed(r.pre, n, r.newVal)
                /\ (/\ Vetoed(r)
                    /\ IF HasValue(r.post, n) THEN Accepted(r.pre, n, stored)
                       ELSE r.events[1].newVal # Undef)
                        => r.events[1].newVal # stored

\* the validator rejected a candidate that the set transform had changed:
\* the event reports the transformed candidate, the store is as before
C21_Witness ==
    \E i \in DOMAIN sets :
        LET r == sets[i]
            n == BaseOf(r)
        IN  /\ Vetoed(r)
            /\ r.events[1].newVal # r.newVal
            /\ r.events[1].newVal # StateGet(r.post, n, VALUE)
            /\ SameValue(r.pre, r.post, n)

\* C22: _initAtts leaves the config objects of the configuration map and
\* their default value objects as they were before the call, and a second
\* host constructed from the same map without initial values is registered
\* with the default of the map for every attribute.
C22_InitKeepsInputs ==
    /\ (call.op = "_initAtts" /\ call.cfg # Undef) =>
            \A i \in DOMAIN call.after :
                /\ call.after[i].config = ConfigIn(call.after[i].name)
                /\ call.after[i].default = Prop(Obj(ConfigIn(call.after[i].name)), VALUE)
    /\ call.op = "_initAtts second" =>
            \A i \in DOMAIN call.added :
                call.added[i].config = ConfigIn(call.added[i].name)

\* C23: when the validator rejects the candidate of a set call (direct, or
\* made by addAtt or setAtts) on an attribute without value, the attribute
\* has no value afterwards, and the next set of the attribute, readOnly or
\* writeOnce or not, is an initial assignment that fires its event and
\* stores its candidate when the validator accepts it.
C23_RejectedFirstWriteNotConsumed ==
    \A i \in DOMAIN sets :
        LET r == sets[i]
            n == BaseOf(r)
        IN  (Vetoed(r) /\ ~HasValue(r.pre, n)) =>
                /\ ~HasValue(r.post, n)
                /\ ~Locked(r.post, n)
                /\ \A v \in Vals :
                        LET r2 == set(r.post, <<n>>, v, Undef)
                            cand == Transformed(r.post, n, v)
                        IN  /\ r2.initialSet
                            /\ r2.out = "fired"
                            /\ Accepted(r.post, n, cand) =>
                                    (HasValue(r2.post, n) /\ r2.post[VALUE][n] = cand)

\* the validator rejected the first write of a writeOnce attribute, made by
\* addAtt, and a set of the attribute from there commits
C23_Witness ==
    /\ call.op = "addAtt"
    /\ Len(sets) = 1
    /\ Truthy(StateGet(sets[1].pre, call.name, WRITE_ONCE))
    /\ Vetoed(sets[1])
    /\ ~HasValue(sets[1].pre, call.name)
    /\ ~HasValue(data, call.name)
    /\ \E v \in Vals : HasValue(set(data, <<call.name>>, v, Undef).post, call.name)
====
